---- MODULE Spec2Model ----
(***************************************************************************)
(* A model of nod (include/nod/nod.hpp): one signal_type object, the       *)
(* connection and scoped_connection objects of its client, the control     *)
(* block of the std::shared_ptr<detail::disconnector> the signal hands     *)
(* out, and the threads that run connection::disconnect() against the      *)
(* signal's destructor.                                                    *)
(*                                                                         *)
(* A callable is a number: Empty (0) is an empty std::function, k > 0 is   *)
(* the non-empty callable passed to the k-th connect call.  A control      *)
(* block is a number > 0; 0 is the null shared_ptr / empty weak_ptr.       *)
(* Slot indices are 0-based as in the source; the sequence `slots` is      *)
(* 1-based, so index i lives at slots[i + 1].                              *)
(***************************************************************************)
EXTENDS Integers, Sequences, FiniteSets, TLC

\* ------------------------------------------------------------------ bounds
MaxConnects == 3      \* number of connect calls in one run
NThreads == 2         \* threads that run connection::disconnect()
MaxArg == 1           \* slot arguments are 0..MaxArg
MaxInit == 1          \* accumulate init values are 0..MaxInit

Conns == {1, 2}       \* the plain connection objects of the client
Scopeds == {1}        \* the scoped_connection objects of the client
Threads == 1..NThreads
Args == 0..MaxArg
Inits == 0..MaxInit
Ops == {"add", "max", "horner"}

Empty == 0            \* slot_type{} : the empty std::function
NoProxy == [init |-> -1, op |-> "none"]

VARIABLES
    slots,                \* signal_type::_slots
    shared_disconnector,  \* signal_type::_shared_disconnector (0 = nullptr)
    nextCb,               \* number of control blocks created so far
    mutex,                \* signal_type::_mutex: 0 free, t held by thread t
    conn,                 \* the client's connection objects
    scoped,               \* the client's scoped_connection objects
    proxy,                \* the signal_accumulator the client holds
    invoked,              \* callables invoked by the latest trigger, in call order
    result,               \* value returned by the latest accumulator call
    failed,               \* the assert of signal_type::disconnect has fired
    last,                 \* the operation that produced this state: its name,
                          \* its operands (connection, wrapper or argument) and
                          \* the number of signal_type::disconnect calls it made
    minted,               \* history: callable and index of every connect call
    disconnected,         \* history: connections on which disconnect() returned
    pc, ptr, tconn,       \* per thread: position, local `ptr`, connection used
    iter, tval,           \* per thread, inside a trigger: position of the
                          \* range-for in _slots (0: none) and the local `value`
    dtorPc, dtorWeak, dtorTmp, dtorWaited  \* ~signal_type: position and locals

vars == <<slots, shared_disconnector, nextCb, mutex, conn, scoped, proxy,
          invoked, result, failed, last, minted, disconnected,
          pc, ptr, tconn, iter, tval, dtorPc, dtorWeak, dtorTmp, dtorWaited>>

sigVars == <<slots, shared_disconnector, nextCb>>
outVars == <<invoked, result>>
threadVars == <<pc, ptr, tconn, mutex>>
loopVars == <<iter, tval>>
dtorVars == <<dtorPc, dtorWeak, dtorTmp, dtorWaited>>

\* ------------------------------------------------- connection (lines 38-97)
\* connection(): empty weak_ptr, value-initialised index.  `mint` is the
\* number of the connect call that created the connection (0: none); it
\* travels with the weak_ptr when the connection is moved.
DefaultConnection == [weak |-> 0, index |-> 0, mint |-> 0]

\* connection(shared_disconnector, index)
MintConnection(cb, index, serial) == [weak |-> cb, index |-> index, mint |-> serial]

\* What a connection is left as after std::move(other._weak_disconnector):
\* the weak_ptr is empty, _index keeps its value.
MovedFrom(c) == [weak |-> 0, index |-> c.index, mint |-> 0]

\* What the target of a move construction / move assignment becomes.
MovedTo(c) == [weak |-> c.weak, index |-> c.index, mint |-> c.mint]

\* ------------------------------------------- shared_ptr / weak_ptr control block
\* use_count of control block cb: the signal's own reference, the `ptr`
\* locals of threads inside connection::disconnect, and the temporary the
\* destructor's weak.lock() returns.
UseCount(cb) ==
    (IF shared_disconnector = cb THEN 1 ELSE 0)
    + Cardinality({t \in Threads : ptr[t] = cb})
    + (IF dtorTmp = cb THEN 1 ELSE 0)

\* std::weak_ptr::expired()
Expired(w) == w = 0 \/ UseCount(w) = 0

\* std::weak_ptr::lock(): the control block, or 0 for a null shared_ptr
WeakLock(w) == IF Expired(w) THEN 0 ELSE w

\* A connected() that only asks whether the weak pointer is set.
ConnectedIgnoresExpiry(c) == c.weak # 0

\* connection::connected()
Connected(c) == ~Expired(c.weak)

\* ------------------------------------------------ signal_type (lines 321-515)
\* _slots.push_back(slot)
PushBack(s, f) == Append(s, f)

\* _slots[index] = slot_type{}
ClearSlot(s, index) == [s EXCEPT ![index + 1] = Empty]

\* A disconnect that leaves the tombstones at the tail.
TrimNone(s) == s

\* while( _slots.size()>0 && !_slots.back() ) _slots.pop_back();
RECURSIVE TrimTail(_)
TrimTail(s) ==
    IF Len(s) > 0 /\ s[Len(s)] = Empty
    THEN TrimTail(SubSeq(s, 1, Len(s) - 1))
    ELSE s

\* assert( _slots.size() > index )
InBounds(s, index) == Len(s) > index

\* signal_type::disconnect(index), once the assert has passed
SignalDisconnect(s, index) == TrimTail(ClearSlot(s, index))

\* One turn of that loop, as a thread runs it: its condition and its body.
TrimCond(s) == Len(s) > 0 /\ s[Len(s)] = Empty
PopBack(s) == SubSeq(s, 1, Len(s) - 1)

\* The return value of callable f called with argument a.
Ret(f, a) == f + a

\* for( auto const& slot : _slots ) if( slot ) slot( args... );
RECURSIVE CallSlots(_, _)
CallSlots(s, i) ==
    IF i > Len(s) THEN <<>>
    ELSE IF s[i] # Empty THEN <<s[i]>> \o CallSlots(s, i + 1)
    ELSE CallSlots(s, i + 1)

\* The accumulator function F of signal_accumulator.
Func(op, a, b) ==
    CASE op = "add" -> a + b
      [] op = "max" -> IF a >= b THEN a ELSE b
      [] op = "horner" -> 2 * a + b

\* A fold that walks the slot sequence from its end.
RECURSIVE AccumulateBackward(_, _, _, _, _)
AccumulateBackward(value, op, s, i, a) ==
    IF i > Len(s) THEN value
    ELSE IF s[Len(s) + 1 - i] # Empty
         THEN AccumulateBackward(Func(op, value, Ret(s[Len(s) + 1 - i], a)),
                                 op, s, i + 1, a)
         ELSE AccumulateBackward(value, op, s, i + 1, a)

\* trigger_with_accumulator: value = func( value, slot( args... ) ) over the
\* non-empty slots from position i on.
RECURSIVE Accumulate(_, _, _, _, _)
Accumulate(value, op, s, i, a) ==
    IF i > Len(s) THEN value
    ELSE IF s[i] # Empty
         THEN Accumulate(Func(op, value, Ret(s[i], a)), op, s, i + 1, a)
         ELSE Accumulate(value, op, s, i + 1, a)

\* ------------------------------------------------------------------- Init
Init ==
    /\ slots = <<>>
    /\ shared_disconnector = 0
    /\ nextCb = 0
    /\ mutex = 0
    /\ conn = [h \in Conns |-> DefaultConnection]
    /\ scoped = [s \in Scopeds |-> [alive |-> TRUE, c |-> DefaultConnection]]
    /\ proxy = NoProxy
    /\ invoked = <<>>
    /\ result = 0
    /\ failed = FALSE
    /\ last = [op |-> "init", x |-> 0, y |-> 0, calls |-> 0]
    /\ minted = <<>>
    /\ disconnected = {}
    /\ pc = [t \in Threads |-> "idle"]
    /\ ptr = [t \in Threads |-> 0]
    /\ tconn = [t \in Threads |-> 0]
    /\ iter = [t \in Threads |-> 0]
    /\ tval = [t \in Threads |-> 0]
    /\ dtorPc = "idle"
    /\ dtorWeak = 0
    /\ dtorTmp = 0
    /\ dtorWaited = FALSE

\* The signal object exists and its destructor has not begun.
SignalAlive == dtorPc = "idle"

\* The client thread may run an operation.
Running == ~failed

\* No thread is inside connection::disconnect.
Quiet == \A t \in Threads : pc[t] = "idle"

\* ------------------------------------------------ the lock (lines 186-195)
\* The lock of singlethread_policy: a dummy that never waits.
LockFreeUnsafe(m, t) == TRUE

\* A recursive mutex: its owner may lock it again.
LockFreeRecursive(m, t) == m = 0 \/ m = t

\* mutex_lock_type lock{ _mutex } with multithread_policy (std::mutex and
\* std::lock_guard): thread t gets past it only when no thread owns _mutex.
LockFree(m, t) == m = 0

\* ------------------------------------------------ signal_type::connect
\* A connect that makes a new shared handle on every call.
HandleAlwaysNew(sd, n) == n + 1

\* if( _shared_disconnector == nullptr ) { ... make one ... }: the control
\* block _shared_disconnector owns after connect, n blocks made so far.
HandleFor(sd, n) == IF sd = 0 THEN n + 1 ELSE sd

\* conn[h] = sig.connect(f): the whole body runs under the lock.
Connect(h, f) ==
    /\ Running /\ SignalAlive /\ mutex = 0
    /\ Len(minted) < MaxConnects
    /\ \A t \in Threads : tconn[t] # h
    /\ LET serial == Len(minted) + 1
           callable == IF f = Empty THEN Empty ELSE serial
           s2 == PushBack(slots, callable)
           index == Len(s2) - 1
           cb == HandleFor(shared_disconnector, nextCb)
       IN /\ slots' = s2
          /\ shared_disconnector' = cb
          /\ nextCb' = IF cb > nextCb THEN cb ELSE nextCb
          /\ conn' = [conn EXCEPT ![h] = MovedTo(MintConnection(cb, index, serial))]
          /\ minted' = Append(minted, [f |-> callable, index |-> index])
          /\ last' = [op |-> "connect", x |-> h, y |-> 0, calls |-> 0]
    /\ invoked' = <<>> /\ result' = 0
    /\ UNCHANGED <<mutex, scoped, proxy, failed, disconnected, pc, ptr, tconn>>
    /\ UNCHANGED dtorVars
    /\ UNCHANGED loopVars

\* ------------------------------------------- connection::disconnect (518-524)
\* A disconnect() that forgets to reset its weak pointer.
ConnNotReset(c) == c

\* _weak_disconnector.reset()
ConnReset(c) == [c EXCEPT !.weak = 0]

\* A disconnect() that calls through `ptr` without testing it.
DisconnectCallsUntested(c) == 1

\* auto ptr = _weak_disconnector.lock(); if( ptr ) (*ptr)( _index );
\* disconnector::operator() forwards to signal_type::disconnect, whose _ptr is
\* the signal (set by connect, line 371).  1 if the call is made, else 0.
DisconnectCalls(c) == IF WeakLock(c.weak) # 0 THEN 1 ELSE 0

\* The call is made and its assert( _slots.size() > index ) fires.
DisconnectAsserts(c) == DisconnectCalls(c) = 1 /\ ~InBounds(slots, c.index)

\* _slots after connection::disconnect on c, run to completion.
DisconnectSlots(c) ==
    IF DisconnectCalls(c) = 1 /\ InBounds(slots, c.index)
    THEN SignalDisconnect(slots, c.index)
    ELSE slots

\* The connections on which disconnect() has returned, once it has run on c
\* (it does not return when the assert fires).
NoteDisconnect(c) ==
    IF c.mint = 0 \/ DisconnectAsserts(c) THEN disconnected
    ELSE disconnected \cup {c.mint}

\* The client thread runs between operations: no destructor is in progress.
ClientMay == Running /\ dtorPc \in {"idle", "freed"} /\ Quiet /\ mutex = 0

\* conn[h].disconnect(), run to completion by the client thread.
Disconnect(h) ==
    /\ ClientMay
    /\ LET c == conn[h]
       IN /\ slots' = DisconnectSlots(c)
          /\ failed' = DisconnectAsserts(c)
          /\ conn' = IF DisconnectAsserts(c) THEN conn
                     ELSE [conn EXCEPT ![h] = ConnReset(c)]
          /\ disconnected' = NoteDisconnect(c)
          /\ last' = [op |-> "disconnect", x |-> h, y |-> 0, calls |-> DisconnectCalls(c)]
    /\ invoked' = <<>> /\ result' = 0
    /\ UNCHANGED <<shared_disconnector, nextCb, mutex, scoped, proxy, minted,
                   pc, ptr, tconn>>
    /\ UNCHANGED dtorVars
    /\ UNCHANGED loopVars

\* conn[h2] = std::move(conn[h1])   (move assignment, lines 58-62)
Move(h1, h2) ==
    /\ ClientMay
    /\ h1 # h2
    /\ conn' = [conn EXCEPT ![h2] = MovedTo(conn[h1]), ![h1] = MovedFrom(conn[h1])]
    /\ last' = [op |-> "move", x |-> h2, y |-> h1, calls |-> 0]
    /\ invoked' = <<>> /\ result' = 0
    /\ UNCHANGED <<mutex, scoped, proxy, failed, minted, disconnected,
                   pc, ptr, tconn>>
    /\ UNCHANGED sigVars
    /\ UNCHANGED dtorVars
    /\ UNCHANGED loopVars

\* conn[h] goes out of scope (the implicit ~connection destroys the weak
\* pointer and nothing else) and a default-constructed object takes its
\* place.
Drop(h) ==
    /\ ClientMay
    /\ conn[h] # DefaultConnection
    /\ conn' = [conn EXCEPT ![h] = DefaultConnection]
    /\ last' = [op |-> "drop", x |-> h, y |-> 0, calls |-> 0]
    /\ invoked' = <<>> /\ result' = 0
    /\ UNCHANGED <<mutex, scoped, proxy, failed, minted, disconnected,
                   pc, ptr, tconn>>
    /\ UNCHANGED sigVars
    /\ UNCHANGED dtorVars
    /\ UNCHANGED loopVars

\* ------------------------------------------ signal_type::operator() (387-394)
\* sig(): the slots take no argument of interest; each is recorded as called.
Trigger ==
    /\ ClientMay /\ SignalAlive
    /\ invoked' = CallSlots(slots, 1)
    /\ result' = 0
    /\ last' = [op |-> "trigger", x |-> 0, y |-> 0, calls |-> 0]
    /\ UNCHANGED <<mutex, conn, scoped, proxy, failed, minted, disconnected,
                   pc, ptr, tconn>>
    /\ UNCHANGED sigVars
    /\ UNCHANGED dtorVars
    /\ UNCHANGED loopVars

\* ------------------------------------------- signal_type::accumulate (429-433)
\* proxy = sig.accumulate(init, op): the proxy keeps a reference to the
\* signal, a copy of init and a copy of op.
MakeAccumulator(init, op) ==
    /\ ClientMay /\ SignalAlive
    /\ proxy' = [init |-> init, op |-> op]
    /\ last' = [op |-> "accumulate", x |-> init, y |-> 0, calls |-> 0]
    /\ invoked' = <<>> /\ result' = 0
    /\ UNCHANGED <<mutex, conn, scoped, failed, minted, disconnected,
                   pc, ptr, tconn>>
    /\ UNCHANGED sigVars
    /\ UNCHANGED dtorVars
    /\ UNCHANGED loopVars

\* ------------------------- signal_accumulator::operator() (284-286, 444-453)
\* A proxy that hands its _init over by reference: the fold runs in it.
ProxyKeepsValue(p, r) == [p EXCEPT !.init = r]

\* The proxy after a call that returned r: trigger_with_accumulator takes
\* `T value` by value, so _init and _func are as before.
ProxyAfterCall(p, r) == p

\* proxy(a): trigger_with_accumulator( _init, _func, a ) on the signal as it
\* is now.
CallAccumulator(a) ==
    /\ ClientMay /\ SignalAlive
    /\ proxy # NoProxy
    /\ invoked' = CallSlots(slots, 1)
    /\ result' = Accumulate(proxy.init, proxy.op, slots, 1, a)
    /\ proxy' = ProxyAfterCall(proxy, result')
    /\ last' = [op |-> "call", x |-> a, y |-> 0, calls |-> 0]
    /\ UNCHANGED <<mutex, conn, scoped, failed, minted, disconnected,
                   pc, ptr, tconn>>
    /\ UNCHANGED sigVars
    /\ UNCHANGED dtorVars
    /\ UNCHANGED loopVars

\* ------------------------------------------- scoped_connection (lines 104-176)
\* What a wrapper's _connection is after `_connection = std::move(c)`.
Adopt(c) == MovedTo(c)

\* scoped[s].disconnect()   (lines 169-171)
ScopedDisconnect(s) ==
    /\ ClientMay
    /\ scoped[s].alive
    /\ LET c == scoped[s].c
       IN /\ slots' = DisconnectSlots(c)
          /\ failed' = DisconnectAsserts(c)
          /\ scoped' = IF DisconnectAsserts(c) THEN scoped
                       ELSE [scoped EXCEPT ![s].c = ConnReset(c)]
          /\ disconnected' = NoteDisconnect(c)
          /\ last' = [op |-> "sdisconnect", x |-> s, y |-> 0,
                      calls |-> DisconnectCalls(c)]
    /\ invoked' = <<>> /\ result' = 0
    /\ UNCHANGED <<shared_disconnector, nextCb, mutex, conn, proxy, minted,
                   pc, ptr, tconn>>
    /\ UNCHANGED dtorVars
    /\ UNCHANGED loopVars

\* scoped[s].reset( std::move(conn[h]) )   (lines 144-147):
\* disconnect(); _connection = std::move(c);
ScopedReset(s, h) ==
    /\ ClientMay
    /\ scoped[s].alive
    /\ LET c == scoped[s].c
       IN /\ slots' = DisconnectSlots(c)
          /\ failed' = DisconnectAsserts(c)
          /\ scoped' = IF DisconnectAsserts(c) THEN scoped
                       ELSE [scoped EXCEPT ![s].c = Adopt(conn[h])]
          /\ conn' = IF DisconnectAsserts(c) THEN conn
                     ELSE [conn EXCEPT ![h] = MovedFrom(conn[h])]
          /\ disconnected' = NoteDisconnect(c)
          /\ last' = [op |-> "reset", x |-> s, y |-> h, calls |-> DisconnectCalls(c)]
    /\ invoked' = <<>> /\ result' = 0
    /\ UNCHANGED <<shared_disconnector, nextCb, mutex, proxy, minted,
                   pc, ptr, tconn>>
    /\ UNCHANGED dtorVars
    /\ UNCHANGED loopVars

\* scoped[s] = std::move(conn[h])   (lines 135-138): forwards to reset.
ScopedAssign(s, h) == ScopedReset(s, h)

\* scoped[s].reset(): the default argument is a default-constructed connection.
ScopedResetDefault(s) ==
    /\ ClientMay
    /\ scoped[s].alive
    /\ LET c == scoped[s].c
       IN /\ slots' = DisconnectSlots(c)
          /\ failed' = DisconnectAsserts(c)
          /\ scoped' = IF DisconnectAsserts(c) THEN scoped
                       ELSE [scoped EXCEPT ![s].c = Adopt(DefaultConnection)]
          /\ disconnected' = NoteDisconnect(c)
          /\ last' = [op |-> "reset0", x |-> s, y |-> 0,
                      calls |-> DisconnectCalls(c)]
    /\ invoked' = <<>> /\ result' = 0
    /\ UNCHANGED <<shared_disconnector, nextCb, mutex, conn, proxy, minted,
                   pc, ptr, tconn>>
    /\ UNCHANGED dtorVars
    /\ UNCHANGED loopVars

\* A release() that leaves the connection in the wrapper as well.
ReleasedKeeps(c) == c

\* What release() leaves in the wrapper: _connection = connection{}
Released(c) == MovedTo(DefaultConnection)

\* conn[h] = scoped[s].release()   (lines 151-155)
ScopedRelease(s, h) ==
    /\ ClientMay
    /\ scoped[s].alive
    /\ conn' = [conn EXCEPT ![h] = MovedTo(scoped[s].c)]
    /\ scoped' = [scoped EXCEPT ![s].c = Released(scoped[s].c)]
    /\ last' = [op |-> "release", x |-> s, y |-> h, calls |-> 0]
    /\ invoked' = <<>> /\ result' = 0
    /\ UNCHANGED <<mutex, proxy, failed, minted, disconnected, pc, ptr, tconn>>
    /\ UNCHANGED sigVars
    /\ UNCHANGED dtorVars
    /\ UNCHANGED loopVars

\* ~scoped_connection()   (lines 126-128); the dead object's members are gone.
ScopedDestroy(s) ==
    /\ ClientMay
    /\ scoped[s].alive
    /\ LET c == scoped[s].c
       IN /\ slots' = DisconnectSlots(c)
          /\ failed' = DisconnectAsserts(c)
          /\ scoped' = IF DisconnectAsserts(c) THEN scoped
                       ELSE [scoped EXCEPT ![s] = [alive |-> FALSE,
                                                   c |-> DefaultConnection]]
          /\ disconnected' = NoteDisconnect(c)
          /\ last' = [op |-> "sdestroy", x |-> s, y |-> 0,
                      calls |-> DisconnectCalls(c)]
    /\ invoked' = <<>> /\ result' = 0
    /\ UNCHANGED <<shared_disconnector, nextCb, mutex, conn, proxy, minted,
                   pc, ptr, tconn>>
    /\ UNCHANGED dtorVars
    /\ UNCHANGED loopVars

\* scoped_connection scoped[s]( std::move(conn[h]) )   (lines 121-123)
ScopedConstruct(s, h) ==
    /\ ClientMay
    /\ ~scoped[s].alive
    /\ scoped' = [scoped EXCEPT ![s] = [alive |-> TRUE, c |-> MovedTo(conn[h])]]
    /\ conn' = [conn EXCEPT ![h] = MovedFrom(conn[h])]
    /\ last' = [op |-> "sconstruct", x |-> s, y |-> h, calls |-> 0]
    /\ invoked' = <<>> /\ result' = 0
    /\ UNCHANGED <<mutex, proxy, failed, minted, disconnected, pc, ptr, tconn>>
    /\ UNCHANGED sigVars
    /\ UNCHANGED dtorVars
    /\ UNCHANGED loopVars

\* A step inside an operation that is still running.
Step == [op |-> "step", x |-> 0, y |-> 0, calls |-> 0]

\* ------------------------------------------- ~signal_type (lines 334-352)
\* std::weak_ptr<detail::disconnector> weak{_shared_disconnector};
DtorBegin ==
    /\ Running /\ dtorPc = "idle"
    /\ dtorWeak' = shared_disconnector
    /\ dtorPc' = "reset"
    /\ last' = Step
    /\ invoked' = <<>> /\ result' = 0
    /\ UNCHANGED <<mutex, conn, scoped, proxy, failed, minted, disconnected,
                   pc, ptr, tconn, dtorTmp, dtorWaited>>
    /\ UNCHANGED sigVars
    /\ UNCHANGED loopVars

\* _shared_disconnector.reset();
DtorReset ==
    /\ Running /\ dtorPc = "reset"
    /\ shared_disconnector' = 0
    /\ dtorPc' = "lock"
    /\ UNCHANGED <<slots, nextCb, mutex, conn, scoped, proxy, failed, last,
                   minted, disconnected, pc, ptr, tconn, dtorWeak, dtorTmp,
                   dtorWaited>>
    /\ UNCHANGED outVars
    /\ UNCHANGED loopVars

\* A destructor that does not wait: its loop condition is false at once.
DtorNoWait(w) == 0

\* The temporary shared_ptr that weak.lock() returns in the loop condition.
DtorLocked(w) == WeakLock(w)

\* while( weak.lock() != nullptr ): the call of lock()
DtorLock ==
    /\ Running /\ dtorPc = "lock"
    /\ dtorTmp' = DtorLocked(dtorWeak)
    /\ dtorPc' = "test"
    /\ UNCHANGED <<mutex, conn, scoped, proxy, failed, last, minted, disconnected,
                   pc, ptr, tconn, dtorWeak, dtorWaited>>
    /\ UNCHANGED sigVars
    /\ UNCHANGED outVars
    /\ UNCHANGED loopVars

\* The loop goes on: the temporary is not null; it is released and the
\* thread yields (thread_policy::yield_thread()).
DtorYield ==
    /\ Running /\ dtorPc = "test"
    /\ dtorTmp # 0
    /\ dtorTmp' = 0
    /\ dtorWaited' = TRUE
    /\ dtorPc' = "lock"
    /\ UNCHANGED <<mutex, conn, scoped, proxy, failed, last, minted, disconnected,
                   pc, ptr, tconn, dtorWeak>>
    /\ UNCHANGED sigVars
    /\ UNCHANGED outVars
    /\ UNCHANGED loopVars

\* The loop ends: lock() returned nullptr.  The destructor body is over and
\* the members (_shared_disconnector, _disconnector, _slots, _mutex) are
\* destroyed.
DtorExit ==
    /\ Running /\ dtorPc = "test"
    /\ dtorTmp = 0
    /\ dtorPc' = "freed"
    /\ slots' = <<>>
    /\ last' = [op |-> "destroy", x |-> 0, y |-> 0, calls |-> 0]
    /\ UNCHANGED <<shared_disconnector, nextCb, mutex, conn, scoped, proxy,
                   failed, minted, disconnected, pc, ptr, tconn, dtorWeak,
                   dtorTmp, dtorWaited>>
    /\ UNCHANGED outVars
    /\ UNCHANGED loopVars

\* ------------------------- connection::disconnect run by a thread (518-524)
\* auto ptr = _weak_disconnector.lock(); if( ptr ) ...
\* Thread t calls conn[h].disconnect(); no other thread uses conn[h].
TBegin(t, h) ==
    /\ Running /\ pc[t] = "idle"
    /\ \A u \in Threads : tconn[u] # h
    /\ tconn' = [tconn EXCEPT ![t] = h]
    /\ ptr' = [ptr EXCEPT ![t] = WeakLock(conn[h].weak)]
    /\ pc' = [pc EXCEPT ![t] = IF WeakLock(conn[h].weak) # 0 THEN "call" ELSE "reset"]
    /\ last' = Step
    /\ invoked' = <<>> /\ result' = 0
    /\ UNCHANGED <<mutex, conn, scoped, proxy, failed, minted, disconnected>>
    /\ UNCHANGED sigVars
    /\ UNCHANGED dtorVars
    /\ UNCHANGED loopVars

\* (*ptr)( _index ): disconnector::operator() reads _ptr and calls
\* signal_type::disconnect (lines 495-499), which takes the lock:
\* mutex_lock_type lock( _mutex );
TAcquire(t) ==
    /\ Running /\ pc[t] = "call"
    /\ LockFree(mutex, t)
    /\ mutex' = t
    /\ pc' = [pc EXCEPT ![t] = "clear"]
    /\ UNCHANGED <<conn, scoped, proxy, failed, last, minted, disconnected,
                   ptr, tconn>>
    /\ UNCHANGED sigVars
    /\ UNCHANGED outVars
    /\ UNCHANGED dtorVars
    /\ UNCHANGED loopVars

\* assert( _slots.size() > index ) passes; _slots[ index ] = slot_type{};
TClear(t) ==
    /\ Running /\ pc[t] = "clear"
    /\ InBounds(slots, conn[tconn[t]].index)
    /\ slots' = ClearSlot(slots, conn[tconn[t]].index)
    /\ pc' = [pc EXCEPT ![t] = "trim"]
    /\ UNCHANGED <<shared_disconnector, nextCb, mutex, conn, scoped, proxy,
                   failed, last, minted, disconnected, ptr, tconn>>
    /\ UNCHANGED outVars
    /\ UNCHANGED dtorVars
    /\ UNCHANGED loopVars

\* assert( _slots.size() > index ) fires: the program aborts.
TAssertFails(t) ==
    /\ Running /\ pc[t] = "clear"
    /\ ~InBounds(slots, conn[tconn[t]].index)
    /\ failed' = TRUE
    /\ UNCHANGED <<mutex, conn, scoped, proxy, last, minted, disconnected,
                   pc, ptr, tconn>>
    /\ UNCHANGED sigVars
    /\ UNCHANGED outVars
    /\ UNCHANGED dtorVars
    /\ UNCHANGED loopVars

\* One turn of the trimming loop: _slots.pop_back();
TPop(t) ==
    /\ Running /\ pc[t] = "trim"
    /\ TrimCond(slots)
    /\ slots' = PopBack(slots)
    /\ UNCHANGED <<shared_disconnector, nextCb, mutex, conn, scoped, proxy,
                   failed, last, minted, disconnected, pc, ptr, tconn>>
    /\ UNCHANGED outVars
    /\ UNCHANGED dtorVars
    /\ UNCHANGED loopVars

\* signal_type::disconnect returns.  The trimming loop has ended; the lock_guard goes out of scope.
TUnlock(t) ==
    /\ Running /\ pc[t] = "trim"
    /\ ~TrimCond(slots)
    /\ mutex' = 0
    /\ pc' = [pc EXCEPT ![t] = "reset"]
    /\ UNCHANGED <<conn, scoped, proxy, failed, last, minted, disconnected,
                   ptr, tconn>>
    /\ UNCHANGED sigVars
    /\ UNCHANGED outVars
    /\ UNCHANGED dtorVars
    /\ UNCHANGED loopVars

\* A disconnect() whose strong reference outlives the call.
PtrKept(p) == p

\* What the local `ptr` holds once connection::disconnect has returned.
PtrReleased(p) == 0

\* _weak_disconnector.reset(); then connection::disconnect returns and the
\* local `ptr` is destroyed.
TReturn(t) ==
    /\ Running /\ pc[t] = "reset"
    /\ conn' = [conn EXCEPT ![tconn[t]] = ConnReset(conn[tconn[t]])]
    /\ ptr' = [ptr EXCEPT ![t] = PtrReleased(ptr[t])]
    /\ tconn' = [tconn EXCEPT ![t] = 0]
    /\ pc' = [pc EXCEPT ![t] = "idle"]
    /\ disconnected' = IF conn[tconn[t]].mint = 0 THEN disconnected
                       ELSE disconnected \cup {conn[tconn[t]].mint}
    /\ UNCHANGED <<mutex, scoped, proxy, failed, last, minted>>
    /\ UNCHANGED sigVars
    /\ UNCHANGED outVars
    /\ UNCHANGED dtorVars
    /\ UNCHANGED loopVars

\* ------------------------------- signal_type::connect run by a thread (365-375)
\* Thread t calls conn[h] = sig.connect(...): mutex_lock_type lock{ _mutex };
TConnLock(t, h) ==
    /\ Running /\ SignalAlive /\ pc[t] = "idle"
    /\ Len(minted) < MaxConnects
    /\ \A u \in Threads : tconn[u] # h
    /\ LockFree(mutex, t)
    /\ mutex' = t
    /\ tconn' = [tconn EXCEPT ![t] = h]
    /\ pc' = [pc EXCEPT ![t] = "push"]
    /\ last' = Step
    /\ invoked' = <<>> /\ result' = 0
    /\ UNCHANGED <<conn, scoped, proxy, failed, minted, disconnected, ptr>>
    /\ UNCHANGED sigVars
    /\ UNCHANGED dtorVars
    /\ UNCHANGED loopVars

\* _slots.push_back( slot ); std::size_t index = _slots.size()-1;
TConnPush(t, f) ==
    /\ Running /\ pc[t] = "push"
    /\ LET serial == Len(minted) + 1
           callable == IF f = Empty THEN Empty ELSE serial
           s2 == PushBack(slots, callable)
       IN /\ slots' = s2
          /\ minted' = Append(minted, [f |-> callable, index |-> Len(s2) - 1])
    /\ pc' = [pc EXCEPT ![t] = "mint"]
    /\ UNCHANGED <<shared_disconnector, nextCb, mutex, conn, scoped, proxy,
                   failed, last, disconnected, ptr, tconn>>
    /\ UNCHANGED outVars
    /\ UNCHANGED dtorVars
    /\ UNCHANGED loopVars

\* if( _shared_disconnector == nullptr ) ...; return connection{ ... };
\* the lock_guard goes out of scope and the caller stores the connection.
TConnReturn(t) ==
    /\ Running /\ pc[t] = "mint"
    /\ LET cb == HandleFor(shared_disconnector, nextCb)
           k == Len(minted)
       IN /\ shared_disconnector' = cb
          /\ nextCb' = IF cb > nextCb THEN cb ELSE nextCb
          /\ conn' = [conn EXCEPT ![tconn[t]] =
                          MovedTo(MintConnection(cb, minted[k].index, k))]
    /\ mutex' = 0
    /\ tconn' = [tconn EXCEPT ![t] = 0]
    /\ pc' = [pc EXCEPT ![t] = "idle"]
    /\ UNCHANGED <<slots, scoped, proxy, failed, last, minted, disconnected, ptr>>
    /\ UNCHANGED outVars
    /\ UNCHANGED dtorVars
    /\ UNCHANGED loopVars

\* ------------- operator() / trigger_with_accumulator run by a thread (387-453)
\* Thread t calls sig() (acc = FALSE), or a proxy made by
\* sig.accumulate(0, plus) with argument 0 (acc = TRUE):
\* mutex_lock_type lock{ _mutex }; the range-for starts at _slots.begin().
TTrigLock(t, acc) ==
    /\ Running /\ SignalAlive /\ pc[t] = "idle"
    /\ LockFree(mutex, t)
    /\ mutex' = t
    /\ iter' = [iter EXCEPT ![t] = 1]
    /\ tval' = [tval EXCEPT ![t] = 0]
    /\ pc' = [pc EXCEPT ![t] = IF acc THEN "acc" ELSE "trig"]
    /\ last' = Step
    /\ invoked' = <<>> /\ result' = 0
    /\ UNCHANGED <<conn, scoped, proxy, failed, minted, disconnected, ptr, tconn>>
    /\ UNCHANGED sigVars
    /\ UNCHANGED dtorVars

\* One turn of the range-for: if( slot ) slot( args... ), respectively
\* value = func( value, slot( args... ) ); the slot body leaves the signal
\* alone.
TLoopCall(t) ==
    /\ Running /\ pc[t] \in {"trig", "acc"}
    /\ iter[t] <= Len(slots)
    /\ iter' = [iter EXCEPT ![t] = iter[t] + 1]
    /\ tval' = [tval EXCEPT ![t] =
                    IF pc[t] = "acc" /\ slots[iter[t]] # Empty
                    THEN Func("add", tval[t], Ret(slots[iter[t]], 0))
                    ELSE tval[t]]
    /\ UNCHANGED <<mutex, conn, scoped, proxy, failed, last, minted,
                   disconnected, pc, ptr, tconn>>
    /\ UNCHANGED sigVars
    /\ UNCHANGED outVars
    /\ UNCHANGED dtorVars

\* The slot body called in this turn calls connect, operator() or disconnect
\* of the same signal: the nested call arrives at its first statement,
\* mutex_lock_type lock{ _mutex } (line 366, 388, 445 or 462).
TSlotReenters(t) ==
    /\ Running /\ pc[t] \in {"trig", "acc"}
    /\ iter[t] <= Len(slots)
    /\ slots[iter[t]] # Empty
    /\ pc' = [pc EXCEPT ![t] = "relock"]
    /\ UNCHANGED <<mutex, conn, scoped, proxy, failed, last, minted,
                   disconnected, ptr, tconn>>
    /\ UNCHANGED sigVars
    /\ UNCHANGED outVars
    /\ UNCHANGED dtorVars
    /\ UNCHANGED loopVars

\* std::mutex::lock() in the nested call.  When the mutex is free the call
\* takes it and enters its locked region.  When the caller owns it the
\* behaviour is undefined: the thread blocks for ever (no step), or lock()
\* throws std::system_error (resource_deadlock_would_occur), which leaves
\* the slot body and the trigger; unwinding releases the outer lock_guard.
TRelock(t) ==
    /\ Running /\ pc[t] = "relock"
    /\ IF LockFree(mutex, t)
       THEN /\ pc' = [pc EXCEPT ![t] = "nested"]
            /\ mutex' = t
            /\ UNCHANGED loopVars
       ELSE /\ pc' = [pc EXCEPT ![t] = "idle"]
            /\ mutex' = 0
            /\ iter' = [iter EXCEPT ![t] = 0]
            /\ tval' = [tval EXCEPT ![t] = 0]
    /\ UNCHANGED <<conn, scoped, proxy, failed, last, minted, disconnected,
                   ptr, tconn>>
    /\ UNCHANGED sigVars
    /\ UNCHANGED outVars
    /\ UNCHANGED dtorVars

\* The range-for has reached _slots.end(): return (value); the lock_guard
\* goes out of scope.
TLoopEnd(t) ==
    /\ Running /\ pc[t] \in {"trig", "acc"}
    /\ iter[t] > Len(slots)
    /\ result' = IF pc[t] = "acc" THEN tval[t] ELSE result
    /\ mutex' = 0
    /\ iter' = [iter EXCEPT ![t] = 0]
    /\ tval' = [tval EXCEPT ![t] = 0]
    /\ pc' = [pc EXCEPT ![t] = "idle"]
    /\ UNCHANGED <<conn, scoped, proxy, invoked, failed, last, minted,
                   disconnected, ptr, tconn>>
    /\ UNCHANGED sigVars
    /\ UNCHANGED dtorVars

\* ---------------------------------------------------------- specifications
\* One client thread that owns plain connection objects: every operation
\* runs to completion before the next one starts.
Next ==
    \/ \E h \in Conns, f \in {Empty, 1} : Connect(h, f)
    \/ \E h \in Conns : Disconnect(h)
    \/ \E h1 \in Conns, h2 \in Conns : Move(h1, h2)
    \/ \E h \in Conns : Drop(h)
    \/ Trigger
    \/ DtorBegin
    \/ DtorReset
    \/ DtorLock
    \/ DtorExit

Spec == Init /\ [][Next]_vars

\* One client thread that keeps connections in scoped_connection wrappers.
NextScoped ==
    \/ \E h \in Conns, f \in {Empty, 1} : Connect(h, f)
    \/ \E h \in Conns : Disconnect(h)
    \/ Trigger
    \/ \E s \in Scopeds : ScopedDisconnect(s)
    \/ \E s \in Scopeds, h \in Conns : ScopedReset(s, h)
    \/ \E s \in Scopeds, h \in Conns : ScopedAssign(s, h)
    \/ \E s \in Scopeds : ScopedResetDefault(s)
    \/ \E s \in Scopeds, h \in Conns : ScopedRelease(s, h)
    \/ \E s \in Scopeds : ScopedDestroy(s)
    \/ \E s \in Scopeds, h \in Conns : ScopedConstruct(s, h)

SpecScoped == Init /\ [][NextScoped]_vars

\* One client thread that connects, disconnects, triggers and accumulates.
NextAcc ==
    \/ \E h \in Conns, f \in {Empty, 1} : Connect(h, f)
    \/ \E h \in Conns : Disconnect(h)
    \/ Trigger
    \/ \E init \in Inits, op \in Ops : MakeAccumulator(init, op)
    \/ \E a \in Args : CallAccumulator(a)

SpecAcc == Init /\ [][NextAcc]_vars

\* The signal's owner connects slots and destroys the signal while other
\* threads disconnect connections of that signal.
NextMT ==
    \/ \E h \in Conns, f \in {Empty, 1} : Connect(h, f)
    \/ \E t \in Threads, h \in Conns : TBegin(t, h)
    \/ \E t \in Threads : TAcquire(t)
    \/ \E t \in Threads : TClear(t)
    \/ \E t \in Threads : TAssertFails(t)
    \/ \E t \in Threads : TPop(t)
    \/ \E t \in Threads : TUnlock(t)
    \/ \E t \in Threads : TReturn(t)
    \/ DtorBegin
    \/ DtorReset
    \/ DtorLock
    \/ DtorYield
    \/ DtorExit

SpecMT == Init /\ [][NextMT]_vars

\* The steps a thread inside connection::disconnect takes next.
TRun(t) ==
    TAcquire(t) \/ TClear(t) \/ TAssertFails(t) \/ TPop(t) \/ TUnlock(t) \/ TReturn(t)

\* The signal's owner connects non-empty callables and destroys the signal
\* while threads disconnect, so that every disconnect() that is begun can
\* return, under a fair scheduler: a thread that can take a step
\* eventually takes one (std::this_thread::yield() lets the others run).
NextFair ==
    \/ \E h \in Conns : Connect(h, 1)
    \/ \E t \in Threads, h \in Conns : TBegin(t, h)
    \/ \E t \in Threads : TAcquire(t)
    \/ \E t \in Threads : TClear(t)
    \/ \E t \in Threads : TPop(t)
    \/ \E t \in Threads : TUnlock(t)
    \/ \E t \in Threads : TReturn(t)
    \/ DtorBegin
    \/ DtorReset
    \/ DtorLock
    \/ DtorYield
    \/ DtorExit

FairMT ==
    /\ WF_vars(DtorReset) /\ WF_vars(DtorLock)
    /\ WF_vars(DtorYield) /\ WF_vars(DtorExit)
    /\ \A t \in Threads : WF_vars(TRun(t))

SpecMTFair == Init /\ [][NextFair]_vars /\ FairMT

\* Threads that connect, trigger, accumulate and disconnect on one signal.
NextLock ==
    \/ \E t \in Threads, h \in Conns : TConnLock(t, h)
    \/ \E t \in Threads, f \in {Empty, 1} : TConnPush(t, f)
    \/ \E t \in Threads : TConnReturn(t)
    \/ \E t \in Threads, acc \in BOOLEAN : TTrigLock(t, acc)
    \/ \E t \in Threads : TLoopCall(t)
    \/ \E t \in Threads : TSlotReenters(t)
    \/ \E t \in Threads : TRelock(t)
    \/ \E t \in Threads : TLoopEnd(t)
    \/ \E t \in Threads, h \in Conns : TBegin(t, h)
    \/ \E t \in Threads : TAcquire(t)
    \/ \E t \in Threads : TClear(t)
    \/ \E t \in Threads : TAssertFails(t)
    \/ \E t \in Threads : TPop(t)
    \/ \E t \in Threads : TUnlock(t)
    \/ \E t \in Threads : TReturn(t)

SpecLock == Init /\ [][NextLock]_vars

\* ================================================================== claims
\* The connection objects that exist.
AllConnections ==
    {conn[h] : h \in Conns} \cup {scoped[s].c : s \in {u \in Scopeds : scoped[u].alive}}

\* connected() of the connection that connect call k returned, wherever it
\* has been moved to.
ConnectedOf(k) == \E c \in AllConnections : c.mint = k /\ Connected(c)

\* The slots that were connected with a non-empty callable and on whose
\* connection disconnect() has not been called.
Live == {k \in 1..Len(minted) : minted[k].f # Empty /\ k \notin disconnected}

\* The callables the slot sequence stores.
Stored(s) == {s[i] : i \in 1..Len(s)} \ {Empty}

\* The members of a set of connect calls, in connection order.
RECURSIVE InOrder(_)
InOrder(S) ==
    IF S = {} THEN <<>>
    ELSE LET m == CHOOSE x \in S : \A y \in S : y <= x
         IN Append(InOrder(S \ {m}), m)

Range(q) == {q[i] : i \in 1..Len(q)}

\* A thread is inside the disconnector call or signal_type::disconnect.
Touching(t) == pc[t] \in {"call", "clear", "trim"}

\* C1 -- destroy-vs-disconnect safety.  Once the destructor's wait loop has
\* exited and the members are freed, no thread is inside the disconnector
\* call or signal_type::disconnect, and none holds a strong reference; a
\* thread is inside only while it holds a strong reference; and a
\* disconnect that resolves its weak reference when the use count is zero
\* gets nullptr and goes straight to resetting its weak pointer.
C1_State ==
    /\ dtorPc = "freed" => \A t \in Threads : ~Touching(t) /\ ptr[t] = 0
    /\ \A t \in Threads : Touching(t) => ptr[t] # 0 /\ UseCount(ptr[t]) > 0

C1_Step ==
    \A t \in Threads :
        (pc[t] = "idle" /\ pc'[t] # "idle" /\ UseCount(conn[tconn'[t]].weak) = 0)
            => (ptr'[t] = 0 /\ pc'[t] = "reset" /\ slots' = slots /\ mutex' = mutex)

C1_DestroyVsDisconnect == []C1_State /\ [][C1_Step]_vars

\* The destructor had to wait for a thread that was inside disconnect, and
\* has now finished; every thread has returned.
C1_Witness ==
    /\ dtorPc = "freed" /\ dtorWaited /\ Quiet
    /\ \E h \in Conns : conn[h].mint \in disconnected /\ conn[h].weak = 0

\* C2 -- ordering.  A trigger invokes exactly the live slots (connected
\* with a non-empty callable, not disconnected), each once, in connection
\* order.
C2_Ordering == last.op = "trigger" => invoked = InOrder(Live)

\* C3 -- after disconnect() on a connection has returned, a later trigger
\* does not invoke that connection's slot and does invoke every other live
\* slot.
C3_DisconnectStopsOnlyItsSlot ==
    last.op = "trigger" =>
        /\ \A k \in disconnected : k \notin Range(invoked)
        /\ \A k \in Live : k \in Range(invoked)

\* C4 -- weak liveness.  connected() is true right after connect, false
\* once disconnect() has returned on the connection, false once the signal
\* is destroyed, and never true again after being false.
C4_State ==
    /\ last.op = "connect" => Connected(conn[last.x]) /\ ConnectedOf(Len(minted))
    /\ \A k \in disconnected : ~ConnectedOf(k)
    /\ dtorPc = "freed" => \A c \in AllConnections : ~Connected(c)

C4_Step == \A k \in 1..Len(minted) : ~ConnectedOf(k) => ~ConnectedOf(k)'

C4_WeakLiveness == []C4_State /\ [][C4_Step]_vars

\* The signal is destroyed while one connection was disconnected before and
\* another still holds its weak pointer.
C4_Witness ==
    /\ dtorPc = "freed"
    /\ \E h1 \in Conns, h2 \in Conns :
        /\ conn[h1].mint \in disconnected
        /\ conn[h2].mint # 0 /\ conn[h2].mint \notin disconnected
        /\ conn[h2].weak # 0

\* C5 -- idempotence of disconnect.  A disconnect() on a connection on which
\* disconnect() was already called makes no call into the signal and leaves
\* the slot sequence and the shared handle as they were.
C5_Step ==
    \A h \in Conns :
        (last'.op = "disconnect" /\ last'.x = h
         /\ conn[h].mint # 0 /\ conn[h].mint \in disconnected)
            => /\ last'.calls = 0
               /\ slots' = slots
               /\ shared_disconnector' = shared_disconnector
               /\ failed' = failed

C5_DisconnectIdempotent == [][C5_Step]_vars

\* A second disconnect() has run on a connection whose index a later connect
\* has reused for a slot that is still stored.
C5_Witness ==
    /\ last.op = "disconnect" /\ last.calls = 0 /\ SignalAlive
    /\ conn[last.x].mint \in disconnected
    /\ InBounds(slots, conn[last.x].index)
    /\ slots[conn[last.x].index + 1] # Empty

\* C6 -- index stability.  Every connection of a live signal for which
\* connected() is true holds an index at which the slot sequence stores the
\* callable the connection was minted for.
C6_IndexStable ==
    SignalAlive =>
        \A c \in AllConnections :
            Connected(c) =>
                /\ InBounds(slots, c.index)
                /\ slots[c.index + 1] = minted[c.mint].f

\* C7 -- the assert of signal_type::disconnect never fires.
C7_AssertHolds == ~failed

\* The left fold of the return values of the callables q[1], ..., q[n],
\* written from the last one inwards.
RECURSIVE LeftFold(_, _, _, _)
LeftFold(init, op, q, a) ==
    IF q = <<>> THEN init
    ELSE Func(op, LeftFold(init, op, SubSeq(q, 1, Len(q) - 1), a), Ret(q[Len(q)], a))

C9_State == last.op = "trigger" => \A k \in disconnected : k \notin Range(invoked)

C9_Step ==
    \A s \in Scopeds :
        /\ (last'.op = "sdestroy" /\ last'.x = s) =>
              IF Connected(scoped[s].c)
              THEN /\ last'.calls = 1
                   /\ ~failed' => /\ scoped[s].c.mint \notin Stored(slots')
                                  /\ ~ConnectedOf(scoped[s].c.mint)'
                                  /\ scoped[s].c.mint \in disconnected'
              ELSE last'.calls = 0 /\ slots' = slots /\ ~failed'
        /\ \A h \in Conns :
              (last'.op = "release" /\ last'.x = s /\ last'.y = h) =>
                  /\ slots' = slots
                  /\ last'.calls = 0
                  /\ conn'[h] = scoped[s].c
                  /\ ~Connected(scoped[s].c)'

C10_Step ==
    \A s \in Scopeds :
        /\ \A h \in Conns :
              (last'.op = "reset" /\ last'.x = s /\ last'.y = h /\ ~failed') =>
                  /\ Connected(scoped[s].c) =>
                        scoped[s].c.mint \notin Stored(slots')
                  /\ scoped'[s].c = conn[h]
                  /\ Connected(conn[h]) =>
                        /\ Connected(scoped[s].c)'
                        /\ conn[h].mint \in Stored(slots) =>
                              conn[h].mint \in Stored(slots')
        /\ (last'.op = "reset0" /\ last'.x = s /\ ~failed') =>
              ~Connected(scoped[s].c)'

C10_ResetAdopts == [][C10_Step]_vars

\* Thread t is inside the locked region of connect, operator(),
\* trigger_with_accumulator or signal_type::disconnect.
InLocked(t) ==
    pc[t] \in {"push", "mint", "trig", "acc", "relock", "nested", "clear", "trim"}

\* C11 -- mutual exclusion.  At most one thread at a time is inside the
\* locked region of connect, operator(), trigger_with_accumulator or
\* disconnect, and no thread reads or appends to the slot sequence while
\* another thread is between the clearing of a slot and the end of the
\* tail trimming.
C11_State ==
    \A t \in Threads, u \in Threads : (t # u /\ InLocked(t)) => ~InLocked(u)

C11_Step ==
    \A t \in Threads :
        ((pc[t] \in {"trig", "acc"} /\ iter'[t] = iter[t] + 1)
         \/ (pc[t] = "push" /\ pc'[t] = "mint"))
            => \A u \in Threads \ {t} : pc[u] # "trim"

C11_MutualExclusion == []C11_State /\ [][C11_Step]_vars

\* A thread has cleared a slot and not yet trimmed the tail, while another
\* thread waits for the lock in its own disconnect.
C11_Witness ==
    \E t \in Threads, u \in Threads :
        /\ t # u
        /\ pc[t] = "trim" /\ TrimCond(slots) /\ mutex = t
        /\ pc[u] = "call"

\* C12 -- silent no-ops.  disconnect() on a default-constructed connection,
\* on a connection on which disconnect() has returned, or on a connection
\* whose signal is destroyed makes no call into a signal, does not trip the
\* assert, leaves the slot sequence alone and leaves connected() false; a
\* default-constructed connection is not connected.
C12_State == \A h \in Conns : conn[h] = DefaultConnection => ~Connected(conn[h])

C12_Step ==
    \A h \in Conns :
        (/\ last'.op = "disconnect" /\ last'.x = h
         /\ \/ conn[h] = DefaultConnection
            \/ conn[h].mint \in disconnected
            \/ dtorPc = "freed")
            => /\ last'.calls = 0
               /\ slots' = slots
               /\ failed' = failed
               /\ ~Connected(conn[h])'

C12_SilentNoOps == []C12_State /\ [][C12_Step]_vars

\* After the signal was destroyed, disconnect() has run on a connection the
\* signal had returned, and the other connection object is a
\* default-constructed one.
C12_Witness ==
    /\ dtorPc = "freed" /\ last.op = "disconnect" /\ last.calls = 0 /\ ~failed
    /\ conn[last.x].mint # 0 /\ disconnected = {conn[last.x].mint}
    /\ \E h \in Conns : conn[h] = DefaultConnection

\* C13 -- destructor termination.  Under fair scheduling, with every
\* disconnect that is in flight returning, a destructor that has begun
\* finishes its wait loop.  A turn of the loop waits exactly when some
\* thread holds a strong reference at the moment of weak.lock(): never when
\* connect was never called, and never because of connections that are
\* merely alive.
C13_State == nextCb = 0 => ~dtorWaited

C13_Step ==
    (dtorPc = "lock" /\ dtorPc' = "test") =>
        (dtorTmp' # 0 <=> \E t \in Threads : ptr[t] # 0)

C13_DestructorTerminates ==
    /\ (dtorPc = "reset") ~> (dtorPc = "freed")
    /\ []C13_State
    /\ [][C13_Step]_vars

\* The destructor waited for a thread inside disconnect and then finished,
\* while another connection, never disconnected, still holds its weak
\* pointer.
C13_Witness ==
    /\ dtorPc = "freed" /\ dtorWaited /\ Quiet /\ ~failed
    /\ \E h \in Conns : conn[h].weak # 0 /\ conn[h].mint \notin disconnected

\* Every connect call so far passed a non-empty callable.
OnlyNonEmpty == \A k \in 1..Len(minted) : minted[k].f # Empty

\* The largest index a live slot was connected at.
MaxLiveIndex ==
    CHOOSE i \in {minted[k].index : k \in Live} :
        \A k \in Live : minted[k].index <= i

\* C14 -- tail-trim invariant.  Between operations on a signal to which only
\* non-empty callables were connected, the slot sequence is empty or ends in
\* a non-empty slot: its length is one more than the largest index of a live
\* slot, and 0 when every connection has been disconnected, in which case a
\* trigger invokes nothing.
C14_TailTrim ==
    (SignalAlive /\ OnlyNonEmpty) =>
        /\ slots = <<>> \/ slots[Len(slots)] # Empty
        /\ Len(slots) = IF Live = {} THEN 0 ELSE 1 + MaxLiveIndex
        /\ (last.op = "trigger" /\ Live = {}) => invoked = <<>>

\* Several non-empty callables were connected, every connection has been
\* disconnected, and a trigger has run on the signal.
C14_Witness ==
    /\ SignalAlive /\ OnlyNonEmpty /\ last.op = "trigger"
    /\ Len(minted) >= 2 /\ disconnected = 1..Len(minted)
    /\ slots = <<>>

\* The connection objects that can disconnect the slot at index i.
CanDisconnect(i) == {h \in Conns : Connected(conn[h]) /\ conn[h].index = i}

\* C15 -- move transfers the disconnect right.  After b = std::move(a) with
\* a connected: a is not connected and b is, holding what a held, and the
\* slots are untouched; disconnect() on a connection that is not connected
\* has no effect on the signal; disconnect() on a connected one clears
\* exactly the slot it was minted for; and at every moment at most one
\* connection object can disconnect a given slot.
C15_State ==
    SignalAlive => \A i \in 0..(Len(slots) - 1) : Cardinality(CanDisconnect(i)) <= 1

C15_Step ==
    /\ \A a \in Conns, b \in Conns :
          (last'.op = "move" /\ last'.y = a /\ last'.x = b /\ Connected(conn[a])) =>
              /\ ~Connected(conn[a])'
              /\ Connected(conn[b])'
              /\ conn'[b].mint = conn[a].mint
              /\ conn'[b].index = conn[a].index
              /\ slots' = slots
    /\ \A h \in Conns :
          (last'.op = "disconnect" /\ last'.x = h) =>
              IF Connected(conn[h])
              THEN /\ ~failed'
                   /\ InBounds(slots, minted[conn[h].mint].index)
                   /\ slots[minted[conn[h].mint].index + 1] = minted[conn[h].mint].f
                   /\ slots' = SignalDisconnect(slots, minted[conn[h].mint].index)
              ELSE slots' = slots /\ last'.calls = 0

C15_MoveTransfers == []C15_State /\ [][C15_Step]_vars

C16_State ==
    \A t \in Threads :
        /\ pc[t] # "nested"
        /\ pc[t] = "relock" =>
              /\ mutex = t
              /\ \A u \in Threads \ {t} : ~InLocked(u)

C16_Step ==
    \A t \in Threads :
        pc[t] = "relock" =>
            /\ slots' = slots
            /\ \/ pc'[t] = "relock" /\ mutex' = t
               \/ pc'[t] = "idle" /\ mutex' = 0 /\ iter'[t] = 0

C17_LiveIndices ==
    SignalAlive =>
        /\ \A h \in Conns : Connected(conn[h]) => conn[h].index < Len(slots)
        /\ \A h1 \in Conns, h2 \in Conns :
              (h1 # h2 /\ Connected(conn[h1]) /\ Connected(conn[h2]))
                  => conn[h1].index # conn[h2].index

\* C18 -- trigger and accumulate are read-only on the signal.  operator()
\* and a call of the accumulator proxy leave the slot sequence, the shared
\* handle and connected() of every connection as they were, and leave the
\* proxy (its init and function) as it was, so that calling the proxy again
\* with the same argument right away gives the same result.
C18_Step ==
    /\ last'.op \in {"trigger", "call"} =>
          /\ slots' = slots
          /\ shared_disconnector' = shared_disconnector
          /\ \A h \in Conns : Connected(conn[h])' <=> Connected(conn[h])
          /\ proxy' = proxy
    /\ (last.op = "call" /\ last'.op = "call" /\ last'.x = last.x) =>
          result' = result

C18_ReadOnly == [][C18_Step]_vars

\* The proxy was called on a signal with a connected, stored slot and
\* returned a value other than its init.
C18_Witness ==
    /\ last.op = "call" /\ result # proxy.init /\ Len(invoked) >= 1
    /\ \E h \in Conns : Connected(conn[h]) /\ conn[h].mint \in Stored(slots)

\* The non-empty slots whose connection was overwritten or destroyed while
\* connected: never disconnected, and held by no connection object.
Orphaned ==
    {k \in Live : \A h \in Conns : conn[h].mint # k}

\* C19 -- overwriting a plain connection does not disconnect.  Move-assigning
\* onto a connected connection object, or destroying one, leaves the slot
\* sequence as it was; from then on the slot stays stored at its index, every
\* trigger invokes it, and no connection object can disconnect it.
C19_State ==
    SignalAlive =>
        \A k \in Orphaned :
            /\ InBounds(slots, minted[k].index)
            /\ slots[minted[k].index + 1] = minted[k].f
            /\ last.op = "trigger" => k \in Range(invoked)
            /\ \A h \in Conns : Connected(conn[h]) => conn[h].index # minted[k].index

C19_Step ==
    \A h \in Conns :
        (last'.op \in {"move", "drop"} /\ last'.x = h /\ Connected(conn[h])) =>
            /\ slots' = slots
            /\ conn[h].mint \in Live => conn[h].mint \in Orphaned'

C19_OverwriteKeepsSlot == []C19_State /\ [][C19_Step]_vars

\* C20 -- one disconnector per signal.  The shared handle is made by the
\* first connect and is the same one until the destructor runs, whatever is
\* connected and disconnected in between; every connection the signal has
\* returned refers to that handle, so those that still hold it are connected
\* or not together, and none is once the destructor has reset the handle.
C20_State ==
    /\ nextCb <= 1
    /\ minted = <<>> => shared_disconnector = 0 /\ nextCb = 0
    /\ (SignalAlive /\ minted # <<>>) => shared_disconnector = 1
    /\ \A h1 \in Conns, h2 \in Conns :
          (conn[h1].weak # 0 /\ conn[h2].weak # 0) =>
              /\ conn[h1].weak = conn[h2].weak
              /\ Connected(conn[h1]) <=> Connected(conn[h2])
    /\ dtorPc \in {"lock", "test", "freed"} => \A h \in Conns : ~Connected(conn[h])

C20_Step ==
    /\ (shared_disconnector # 0 /\ dtorPc' = "idle") =>
          shared_disconnector' = shared_disconnector
    /\ (dtorPc = "reset" /\ dtorPc' = "lock") =>
          \A h \in Conns : ~Connected(conn[h])'

C20_OneDisconnector == []C20_State /\ [][C20_Step]_vars

\* Disconnects have emptied the slot sequence and a later connect has begun
\* it again at index 0, while the signal is alive.
C20_Witness ==
    /\ SignalAlive /\ last.op = "connect" /\ OnlyNonEmpty
    /\ Len(minted) >= 2 /\ disconnected # {}
    /\ Len(slots) = 1 /\ minted[Len(minted)].index = 0
    /\ Connected(conn[last.x])

====
